---- MODULE Spec2Model ----
(***************************************************************************)
(* Model of src/highlighter/mod.rs: the scratch-buffer position decoder    *)
(* `positions`, TextRangesGenerator::generate (the spec's                  *)
(* SegmentRangeGenerator) and HighlightRangesGenerator::generate (the      *)
(* spec's MatchRangeGenerator).                                            *)
(*                                                                         *)
(* One generator instance is modelled (its type is fixed at construction), *)
(* used for any number of generate calls.  Each call is followed step by   *)
(* step: entry (empty-text test, position decoding, allocation of the      *)
(* output, opening of the tokenizer), one step per token_stream.next(),    *)
(* and the return.  Next to the instance under test every call is also     *)
(* run on a freshly constructed instance (variable `fresh`), fed the same  *)
(* tokens, so that reuse can be compared with a fresh start.               *)
(*                                                                         *)
(* The collaborators that are not part of the file (term dictionary,       *)
(* postings, position store, tokenizer) are modelled from their contracts  *)
(* in the specification.                                                   *)
(***************************************************************************)
EXTENDS Integers, Sequences, FiniteSets, TLC

\* const BUFFER_LEN: usize = 1 << 8;  slot 0 holds the length, slots
\* 1 .. BUFFER_LEN-1 hold positions.
BUFFER_LEN == 2^8

\* Bounds of the model.
MaxTextLen == 4    \* longest generic text, in bytes
MaxTokens == 2     \* most tokens a generic token stream emits
MaxOrd == 1        \* largest ordinal position a generic token carries
BlockLen == 2      \* documents per postings block
MaxCalls == 2      \* generate calls made on the instance

(***************************************************************************)
(* Helpers on sequences.                                                   *)
(***************************************************************************)
RECURSIVE SumSeq(_)
SumSeq(s) == IF s = <<>> THEN 0 ELSE Head(s) + SumSeq(Tail(s))

RECURSIVE SortedSeq(_)
SortedSeq(S) ==
    IF S = {} THEN <<>>
    ELSE LET m == CHOOSE x \in S : \A y \in S : x <= y
         IN <<m>> \o SortedSeq(S \ {m})

Range(s) == {s[i] : i \in 1..Len(s)}

Min(a, b) == IF a <= b THEN a ELSE b

(***************************************************************************)
(* The index: the two terms a query may match, in term-dictionary order    *)
(* (1 "fox", 2 "quick"), and three documents.  Occ[t, d] is the ascending  *)
(* list of ordinal positions of term t in document d.                      *)
(*   doc 0  "the quick brown fox"                                          *)
(*   doc 1  "fox fox the"                                                  *)
(*   doc 2  128 x "fox" followed by 128 x "quick"                          *)
(***************************************************************************)
Terms == 1..2
Docs == 0..2

Occ ==
    [t \in Terms, d \in Docs |->
        CASE d = 0 -> (CASE t = 1 -> <<3>> [] t = 2 -> <<1>>)
          [] d = 1 -> (CASE t = 1 -> <<0, 1>> [] t = 2 -> <<>>)
          [] d = 2 -> (CASE t = 1 -> [i \in 1..128 |-> i - 1]
                         [] t = 2 -> [i \in 1..128 |-> 127 + i])]

\* DocId returned by seek when the postings are exhausted (i32::MAX).
TERMINATED == 2^30 + (2^30 - 1)

\* The documents of each term's postings list, ascending, and their
\* frequencies.
PostingDocs == [t \in Terms |-> SortedSeq({d \in Docs : Occ[t, d] # <<>>})]
PostingFreqs ==
    [t \in Terms |-> [i \in 1..Len(PostingDocs[t]) |-> Len(Occ[t, PostingDocs[t][i]])]]

RECURSIVE ConcatOcc(_, _)
ConcatOcc(t, docs) ==
    IF docs = <<>> THEN <<>> ELSE Occ[t, Head(docs)] \o ConcatOcc(t, Tail(docs))

\* The position store: every term's positions, document after document,
\* term after term.
RECURSIVE StoreFrom(_)
StoreFrom(t) ==
    IF t \notin Terms THEN <<>> ELSE ConcatOcc(t, PostingDocs[t]) \o StoreFrom(t + 1)
PositionStore == StoreFrom(1)

\* Where each term's positions start in the store (TermInfo's positions
\* index).
RECURSIVE BaseOf(_)
BaseOf(t) == IF t <= 1 THEN 0 ELSE BaseOf(t - 1) + SumSeq(PostingFreqs[t - 1])
TermBase == [t \in Terms |-> BaseOf(t)]

\* postings.seek(doc_id): the cursor on the first document >= doc_id.
\* idx = 0 stands for the exhausted cursor.
seek(t, doc_id) ==
    LET docs == PostingDocs[t]
        hits == {i \in 1..Len(docs) : docs[i] >= doc_id}
        idx == IF hits = {} THEN 0 ELSE CHOOSE i \in hits : \A j \in hits : i <= j
    IN [idx |-> idx,
        doc |-> IF idx = 0 THEN TERMINATED ELSE docs[idx],
        block |-> IF idx = 0 THEN 0 ELSE (idx - 1) \div BlockLen,
        cur |-> IF idx = 0 THEN 0 ELSE (idx - 1) % BlockLen]

\* block_cursor.freqs(): the frequencies of the documents of one block.
freqs(t, block) ==
    LET all == PostingFreqs[t]
    IN SubSeq(all, block * BlockLen + 1, Min((block + 1) * BlockLen, Len(all)))

\* block_cursor.position_offset(): where the block's positions start.
position_offset(t, block) ==
    TermBase[t] + SumSeq(SubSeq(PostingFreqs[t], 1, block * BlockLen))

\* position_reader.read(offset, output): output.len() values from offset on.
read(offset, n) == SubSeq(PositionStore, offset + 1, offset + n)

(***************************************************************************)
(* The tokenizer.  A text is a sequence of one-character strings.          *)
(***************************************************************************)
Token(position, offset_from, offset_to) ==
    [position |-> position, offset_from |-> offset_from, offset_to |-> offset_to]

\* The whitespace tokenizer: maximal runs of non-space characters, numbered
\* from 0.  `start` is the byte offset where the current token began, or -1.
RECURSIVE WsScan(_, _, _, _)
WsScan(text, i, start, acc) ==
    IF i > Len(text)
    THEN IF start >= 0 THEN Append(acc, Token(Len(acc), start, Len(text))) ELSE acc
    ELSE IF text[i] = " "
         THEN WsScan(text, i + 1, -1,
                     IF start >= 0 THEN Append(acc, Token(Len(acc), start, i - 1)) ELSE acc)
         ELSE WsScan(text, i + 1, IF start >= 0 THEN start ELSE i - 1, acc)
WhitespaceTokens(text) == WsScan(text, 1, -1, <<>>)

FoxText ==
    <<"t", "h", "e", " ", "q", "u", "i", "c", "k", " ",
      "b", "r", "o", "w", "n", " ", "f", "o", "x">>

GenericTexts == {[i \in 1..n |-> "a"] : n \in 0..MaxTextLen}

\* A call's text together with the tokenizer configured for the field:
\* "whitespace" is the whitespace tokenizer, "custom" is any forward-only
\* tokenizer (byte spans non-empty, inside the text, each starting at or
\* after the end of the previous one; ordinal positions unconstrained).
WhitespaceScenarios ==
    {[text |-> t, tokenizer |-> "whitespace"] : t \in {<<>>, <<"a", " ", "a">>, FoxText}}

Scenarios ==
    {[text |-> t, tokenizer |-> "custom"] : t \in GenericTexts}
        \cup {[text |-> FoxText, tokenizer |-> "whitespace"]}

\* What token_stream.next() may return after `emitted`: a set of tokens.
NextTokens(text, tokenizer, emitted) ==
    IF tokenizer = "whitespace"
    THEN LET all == WhitespaceTokens(text)
         IN IF Len(emitted) < Len(all) THEN {all[Len(emitted) + 1]} ELSE {}
    ELSE IF Len(emitted) >= MaxTokens THEN {}
         ELSE LET last == IF emitted = <<>> THEN 0 ELSE emitted[Len(emitted)].offset_to
              IN {tk \in {Token(p, a, b) : p \in 0..MaxOrd, a \in last..(Len(text) - 1),
                                           b \in 1..Len(text)} :
                    tk.offset_from < tk.offset_to}

\* Whether token_stream.next() may return None after `emitted`.
StreamMayEnd(text, tokenizer, emitted) ==
    tokenizer = "whitespace" => Len(emitted) = Len(WhitespaceTokens(text))

(***************************************************************************)
(* State.                                                                  *)
(***************************************************************************)
VARIABLES
    kind,         \* "text": a TextRangesGenerator, "highlight": a HighlightRangesGenerator
    debug,        \* whether the build has debug assertions on
    buffer,       \* the instance's scratch buffer, slots 0 .. BUFFER_LEN-1
    entryBuffer,  \* the buffer as it was when the current call was entered
    query,        \* the current call's matching terms (a set of term ids)
    doc,          \* the current call's doc_id
    text,         \* the current call's text
    tokenizer,    \* the tokenizer of the current call's field
    limit,        \* the current call's limit: <<>> is None, <<n>> is Some(n)
    calls,        \* the number of generate calls made on the instance
    tokens,       \* the tokens token_stream.next() has returned so far
    run,          \* the call on the instance under test
    fresh         \* the same call on a freshly constructed instance

vars == <<kind, debug, buffer, entryBuffer, query, doc, text, tokenizer, limit,
          calls, tokens, run, fresh>>

\* MaybeUninit::uninit().assume_init(): the buffer starts with whatever the
\* memory held.
UninitBuffers == {[i \in 0..(BUFFER_LEN - 1) |-> v] : v \in 0..MaxOrd}

\* A call that has not started.  status: "idle", "loop" (inside the token
\* loop), "done" (returned), "panicked" (a debug assertion failed),
\* "crashed" (the process died after an out-of-bounds write).
\*   positions  the slice `positions` returned
\*   capacity   the capacity the output vector was created with
\*   ranges     the ranges written through ptr so far (len is their number)
\*   lower      the cursor of TextRangesGenerator::generate
\*   result     the vector returned
\*   opened     postings streams opened, decoded: `positions` was called,
\*   tokenizer  a token stream was opened, tested: tokens tested for membership
\*   overrun    a position was written past the end of the buffer
IdleRun ==
    [status |-> "idle", positions |-> <<>>, capacity |-> 0, ranges |-> <<>>,
     lower |-> 0, result |-> <<>>, opened |-> 0, decoded |-> FALSE,
     tokenizer |-> FALSE, tested |-> 0, overrun |-> FALSE]

(***************************************************************************)
(* positions(): decoding into the scratch buffer.  A decoding state is     *)
(* [buffer, spill, panicked, opened]; spill is the memory right after the  *)
(* buffer, as far as the call has written into it.                         *)
(***************************************************************************)
\* Lines 176-183 for one term: the new length goes to slot 0, `output` to
\* the slots 1 + len .. len + additional.  What does not fit the buffer goes
\* to the memory after it.
Store(st, len, additional, output) ==
    [buffer |-> [i \in 0..(BUFFER_LEN - 1) |->
                    IF i = 0 THEN len + additional
                    ELSE IF i >= len + 1 /\ i <= len + additional THEN output[i - len]
                    ELSE st.buffer[i]],
     spill |-> [k \in 1..(len + additional - (BUFFER_LEN - 1)) |->
                    IF BUFFER_LEN - 1 + k >= len + 1
                    THEN output[BUFFER_LEN - 1 + k - len]
                    ELSE st.spill[k]],
     panicked |-> FALSE,
     opened |-> st.opened + 1]

\* Lines 173-183: the document is in the term's postings.  len is the length
\* read from slot 0, additional the term's frequency in the document, offset
\* the decode offset.  The capacity test is a debug_assert only.
Collect(st, len, additional, offset) ==
    IF debug /\ ~(len + additional <= BUFFER_LEN - 1)
    THEN [st EXCEPT !.panicked = TRUE, !.opened = @ + 1]
    ELSE Store(st, len, additional, read(offset, additional))

\* The cursor after postings.seek(doc_id), lines 171-184.
Visit(st, t, doc_id, postings) ==
    IF postings.doc # doc_id THEN [st EXCEPT !.opened = @ + 1]
    ELSE Collect(st, st.buffer[0],
                 freqs(t, postings.block)[postings.cur + 1],
                 position_offset(t, postings.block)
                     + SumSeq(SubSeq(freqs(t, postings.block), 1, postings.cur)))

\* One iteration of `for term_info in terminfos.into_iter()`.
DecodeTerm(st, t, doc_id) ==
    IF st.panicked THEN st ELSE Visit(st, t, doc_id, seek(t, doc_id))

RECURSIVE DecodeTerms(_, _, _)
DecodeTerms(st, terminfos, doc_id) ==
    IF terminfos = <<>> THEN st
    ELSE DecodeTerms(DecodeTerm(st, Head(terminfos), doc_id), Tail(terminfos), doc_id)

\* The body of `positions` up to its last line: the length slot is reset,
\* then the terms are decoded in the order of the BTreeSet.
positions(q, doc_id, buf) ==
    DecodeTerms([buffer |-> [buf EXCEPT ![0] = 0], spill |-> <<>>,
                 panicked |-> FALSE, opened |-> 0],
                SortedSeq(q), doc_id)

\* slice::from_raw_parts(ptr.add(1), len) as the caller reads it.  The part
\* of the slice inside the buffer is what was decoded.  The part past the end
\* of the buffer is memory the buffer does not own: the caller reads there
\* either what was written (g = -1) or what its owner stored since (g).
slice(st, g) ==
    [i \in 1..st.buffer[0] |->
        IF i <= BUFFER_LEN - 1 THEN st.buffer[i]
        ELSE IF g < 0 THEN st.spill[i - (BUFFER_LEN - 1)] ELSE g]

slices(st) ==
    IF st.spill = <<>> THEN {slice(st, -1)} ELSE {slice(st, g) : g \in -1..MaxOrd}

(***************************************************************************)
(* Writing into the pre-sized output.  The vector is created with          *)
(* Vec::with_capacity(capacity) and filled through its raw pointer; a      *)
(* write at index >= capacity lands outside the allocation.                *)
(***************************************************************************)
TextRange(highlight, lower, upper) ==
    [highlight |-> highlight, lower |-> lower, upper |-> upper]

HighlightRange(lower, upper) == [lower |-> lower, upper |-> upper]

\* TextRange::whole
whole(upper) == <<TextRange(FALSE, 0, upper)>>

\* TextRange::write: ptr::write(ptr.add(*len), ..); *len += 1
write(highlight, lower, upper, ranges) == Append(ranges, TextRange(highlight, lower, upper))

\* After a step that wrote: the call goes on, or, when a write landed
\* outside the allocation, the process may die of it.
Outcomes(r) ==
    IF Len(r.ranges) > r.capacity THEN {r, [r EXCEPT !.status = "crashed"]} ELSE {r}

\* unsafe { ranges.set_len(len) }; ranges -- the vector as the caller reads
\* it.  The elements inside the allocation are the ones written.  The ones
\* past its end are memory the vector does not own (here: any one of
\* `garbage`, or what was written).
returned(ranges, capacity, garbage) ==
    IF Len(ranges) <= capacity THEN {ranges}
    ELSE {ranges} \cup
         {[i \in 1..Len(ranges) |-> IF i <= capacity THEN ranges[i] ELSE g] : g \in garbage}

TextGarbage(t) == {TextRange(FALSE, 0, 0), TextRange(TRUE, Len(t), Len(t) + 1)}
HighlightGarbage(t) == {HighlightRange(0, 0), HighlightRange(Len(t), Len(t) + 1)}

\* Decode without the empty-text test: `positions` is called for every text.
DecodeAlways(t, q, doc_id, buf) == [decoded |-> TRUE] @@ positions(q, doc_id, buf)

\* The common start of both generate functions: the empty-text test and the
\* call of `positions`.  decoded = FALSE: `positions` was not called.
Decode(t, q, doc_id, buf) ==
    IF t = <<>>
    THEN [decoded |-> FALSE, buffer |-> buf, spill |-> <<>>, panicked |-> FALSE,
          opened |-> 0]
    ELSE [decoded |-> TRUE] @@ positions(q, doc_id, buf)

\* The run record after decoding, before the branch on positions.is_empty().
Decoded(dec) ==
    [IdleRun EXCEPT !.opened = dec.opened, !.decoded = dec.decoded,
                    !.overrun = dec.spill # <<>>]

(***************************************************************************)
(* TextRangesGenerator::generate                                           *)
(***************************************************************************)
\* TextBranch without the positions.is_empty() test: the token loop is
\* entered for every slice.
TextBranchNoEmptyTest(base, upper, view) ==
    [base EXCEPT !.status = "loop", !.positions = view,
                 !.capacity = Len(view) + Len(view) + 1,
                 !.tokenizer = TRUE]

\* Lines 55-65: the branch on positions.is_empty(), for one slice.
TextBranch(base, upper, view) ==
    IF view = <<>>
    THEN [base EXCEPT !.status = "done", !.result = whole(upper)]
    ELSE [base EXCEPT !.status = "loop", !.positions = view,
                      !.capacity = Len(view) + Len(view) + 1,
                      !.tokenizer = TRUE]

\* The runs a decoding may lead to: a panic, a crash after a write past the
\* buffer, or the branch on one of the slices the caller may read.
TextRuns(dec, base, upper) ==
    IF ~dec.decoded THEN {[base EXCEPT !.status = "done"]}
    ELSE IF dec.panicked THEN {[base EXCEPT !.status = "panicked"]}
    ELSE {TextBranch(base, upper, view) : view \in slices(dec)}
         \cup (IF dec.spill # <<>> THEN {[base EXCEPT !.status = "crashed"]} ELSE {})

Entered(dec, runs) == {[buffer |-> dec.buffer, run |-> r] : r \in runs}

TextEntered(t, dec) == Entered(dec, TextRuns(dec, Decoded(dec), Len(t)))

\* Lines 50-65, up to the token loop: the set of [buffer, run] it may reach.
TextEnter(t, q, doc_id, buf) == TextEntered(t, Decode(t, q, doc_id, buf))

\* TextStep without the gap-closing write before a match.
TextStepNoFiller(r, token) ==
    IF token.position \in Range(r.positions)
    THEN [r EXCEPT !.ranges = write(TRUE, token.offset_from, token.offset_to, @),
                   !.lower = token.offset_to,
                   !.tested = @ + 1]
    ELSE [r EXCEPT !.tested = @ + 1]

\* The body of `while let Some(token) = token_stream.next()`, lines 67-74.
TextStep(r, token) ==
    IF token.position \in Range(r.positions)
    THEN LET token_lower == token.offset_from
             token_upper == token.offset_to
             filled == IF token_lower > r.lower
                       THEN write(FALSE, r.lower, token_lower, r.ranges)
                       ELSE r.ranges
         IN [r EXCEPT !.ranges = write(TRUE, token_lower, token_upper, filled),
                      !.lower = token_upper,
                      !.tested = @ + 1]
    ELSE [r EXCEPT !.tested = @ + 1]

\* After the loop, lines 76-81: the trailing filler, set_len, return.
TextFinish(r, t) ==
    LET upper == Len(t)
        closed == IF r.lower # upper THEN write(FALSE, r.lower, upper, r.ranges)
                  ELSE r.ranges
    IN  IF debug /\ ~(r.lower <= upper)
        THEN {[r EXCEPT !.status = "panicked"]}
        ELSE {[r EXCEPT !.status = "done", !.ranges = closed, !.result = res] :
                 res \in returned(closed, r.capacity, TextGarbage(t))}
             \cup (IF Len(closed) > r.capacity
                   THEN {[r EXCEPT !.status = "crashed", !.ranges = closed]} ELSE {})

(***************************************************************************)
(* HighlightRangesGenerator::generate                                      *)
(***************************************************************************)
\* Lines 122-131: the branch on positions.is_empty(), for one slice.
HighlightBranch(base, view) ==
    IF view = <<>>
    THEN [base EXCEPT !.status = "done"]
    ELSE [base EXCEPT !.status = "loop", !.positions = view,
                      !.capacity = Len(view), !.tokenizer = TRUE]

HighlightRuns(dec, base) ==
    IF ~dec.decoded THEN {[base EXCEPT !.status = "done"]}
    ELSE IF dec.panicked THEN {[base EXCEPT !.status = "panicked"]}
    ELSE {HighlightBranch(base, view) : view \in slices(dec)}
         \cup (IF dec.spill # <<>> THEN {[base EXCEPT !.status = "crashed"]} ELSE {})

HighlightEntered(dec) == Entered(dec, HighlightRuns(dec, Decoded(dec)))

\* Lines 118-131, up to the token loop.
HighlightEnter(t, q, doc_id, buf) == HighlightEntered(Decode(t, q, doc_id, buf))

\* .filter(|token| limit.map(|limit| token.offset_to <= limit).unwrap_or(true))
retained(token, lim) == IF lim = <<>> THEN TRUE ELSE token.offset_to <= lim[1]

\* The body of the loop, lines 136-140.
HighlightStep(r, token) ==
    IF token.position \in Range(r.positions)
    THEN [r EXCEPT !.ranges = Append(@, HighlightRange(token.offset_from, token.offset_to)),
                   !.tested = @ + 1]
    ELSE [r EXCEPT !.tested = @ + 1]

\* After the loop, lines 142-143.
HighlightFinish(r, t) ==
    {[r EXCEPT !.status = "done", !.result = res] :
        res \in returned(r.ranges, r.capacity, HighlightGarbage(t))}

(***************************************************************************)
(* The state machine.                                                      *)
(***************************************************************************)
\* TextRangesGenerator::new / HighlightRangesGenerator::new
Init ==
    /\ kind \in {"text", "highlight"}
    /\ debug \in BOOLEAN
    /\ buffer \in UninitBuffers
    /\ entryBuffer = buffer
    /\ query = {}
    /\ doc = 0
    /\ text = <<>>
    /\ tokenizer = "custom"
    /\ limit = <<>>
    /\ calls = 0
    /\ tokens = <<>>
    /\ run = IdleRun
    /\ fresh = IdleRun

\* The limits a caller passes: None, or Some(n).
Limits(t) == {<<>>} \cup {<<n>> : n \in {1, Len(t) \div 2}}

\* What a step does to the fresh instance's run: the same as to the run
\* under test, as long as it is in the loop.
Lockstep(step) == IF fresh.status = "loop" THEN step ELSE {fresh}

\* A call of TextRangesGenerator::generate, up to the token loop, with the
\* text and the field's tokenizer drawn from `scenarios`.
TextCall(scenarios) ==
    /\ kind = "text"
    /\ run.status = "idle"
    /\ calls < MaxCalls
    /\ calls' = calls + 1
    /\ \E q \in SUBSET Terms, d \in Docs, sc \in scenarios, fb \in UninitBuffers :
         \E e \in TextEnter(sc.text, q, d, buffer), f \in TextEnter(sc.text, q, d, fb) :
            /\ buffer' = e.buffer
            /\ run' = e.run
            /\ fresh' = f.run
            /\ entryBuffer' = buffer
            /\ query' = q
            /\ doc' = d
            /\ text' = sc.text
            /\ tokenizer' = sc.tokenizer
            /\ limit' = <<>>
            /\ tokens' = <<>>
    /\ UNCHANGED <<kind, debug>>

\* token_stream.next() returns Some(token): one iteration of the loop.
TextNext ==
    /\ kind = "text"
    /\ run.status = "loop"
    /\ \E token \in NextTokens(text, tokenizer, tokens) :
         /\ tokens' = Append(tokens, token)
         /\ run' \in Outcomes(TextStep(run, token))
         /\ fresh' \in Lockstep(Outcomes(TextStep(fresh, token)))
    /\ UNCHANGED <<kind, debug, buffer, entryBuffer, query, doc, text, tokenizer, limit, calls>>

\* token_stream.next() returns None: the rest of the function.
TextEnd ==
    /\ kind = "text"
    /\ run.status = "loop"
    /\ StreamMayEnd(text, tokenizer, tokens)
    /\ run' \in TextFinish(run, text)
    /\ fresh' \in Lockstep(TextFinish(fresh, text))
    /\ UNCHANGED <<kind, debug, buffer, entryBuffer, query, doc, text, tokenizer, limit,
                   calls, tokens>>

\* A call of HighlightRangesGenerator::generate, up to the token loop, with
\* the text and the field's tokenizer drawn from `scenarios`.
HighlightCall(scenarios) ==
    /\ kind = "highlight"
    /\ run.status = "idle"
    /\ calls < MaxCalls
    /\ calls' = calls + 1
    /\ \E q \in SUBSET Terms, d \in Docs, sc \in scenarios, fb \in UninitBuffers :
         \E lim \in Limits(sc.text) :
         \E e \in HighlightEnter(sc.text, q, d, buffer),
            f \in HighlightEnter(sc.text, q, d, fb) :
            /\ buffer' = e.buffer
            /\ run' = e.run
            /\ fresh' = f.run
            /\ entryBuffer' = buffer
            /\ query' = q
            /\ doc' = d
            /\ text' = sc.text
            /\ tokenizer' = sc.tokenizer
            /\ limit' = lim
            /\ tokens' = <<>>
    /\ UNCHANGED <<kind, debug>>

\* token_stream.next() returns a token that passes the filter.
HighlightNext ==
    /\ kind = "highlight"
    /\ run.status = "loop"
    /\ \E token \in NextTokens(text, tokenizer, tokens) :
         /\ retained(token, limit)
         /\ tokens' = Append(tokens, token)
         /\ run' \in Outcomes(HighlightStep(run, token))
         /\ fresh' \in Lockstep(Outcomes(HighlightStep(fresh, token)))
    /\ UNCHANGED <<kind, debug, buffer, entryBuffer, query, doc, text, tokenizer, limit, calls>>

\* token_stream.next() returns a token the filter rejects: the loop ends, the
\* token has been taken from the stream.
HighlightCut ==
    /\ kind = "highlight"
    /\ run.status = "loop"
    /\ \E token \in NextTokens(text, tokenizer, tokens) :
         /\ ~retained(token, limit)
         /\ tokens' = Append(tokens, token)
    /\ run' \in HighlightFinish(run, text)
    /\ fresh' \in Lockstep(HighlightFinish(fresh, text))
    /\ UNCHANGED <<kind, debug, buffer, entryBuffer, query, doc, text, tokenizer, limit, calls>>

\* token_stream.next() returns None: the loop ends.
HighlightEnd ==
    /\ kind = "highlight"
    /\ run.status = "loop"
    /\ StreamMayEnd(text, tokenizer, tokens)
    /\ run' \in HighlightFinish(run, text)
    /\ fresh' \in Lockstep(HighlightFinish(fresh, text))
    /\ UNCHANGED <<kind, debug, buffer, entryBuffer, query, doc, text, tokenizer, limit,
                   calls, tokens>>

\* The caller takes the returned vector; the instance is kept for the next
\* call, with the buffer as the call left it.
Return ==
    /\ run.status = "done"
    /\ run' = IdleRun
    /\ fresh' = IdleRun
    /\ entryBuffer' = buffer
    /\ query' = {}
    /\ doc' = 0
    /\ text' = <<>>
    /\ tokenizer' = "custom"
    /\ limit' = <<>>
    /\ tokens' = <<>>
    /\ UNCHANGED <<kind, debug, buffer, calls>>

TextGenerate == TextCall(Scenarios)
HighlightGenerate == HighlightCall(Scenarios)

Next ==
    \/ TextGenerate
    \/ TextNext
    \/ TextEnd
    \/ HighlightGenerate
    \/ HighlightNext
    \/ HighlightCut
    \/ HighlightEnd
    \/ Return

Spec == Init /\ [][Next]_vars

\* The same machine with every field tokenized on whitespace.
TextGenerateWs == TextCall(WhitespaceScenarios)
HighlightGenerateWs == HighlightCall(WhitespaceScenarios)

NextWs ==
    \/ TextGenerateWs
    \/ TextNext
    \/ TextEnd
    \/ HighlightGenerateWs
    \/ HighlightNext
    \/ HighlightCut
    \/ HighlightEnd
    \/ Return

SpecWs == Init /\ [][NextWs]_vars

(***************************************************************************)
(* Vocabulary of the properties.                                           *)
(***************************************************************************)
Done == run.status = "done"

\* The positions the index holds for the call's query and document: the
\* occurrences of the matching terms, term after term.
RECURSIVE ConcatTerms(_, _)
ConcatTerms(terms, d) ==
    IF terms = <<>> THEN <<>> ELSE Occ[Head(terms), d] \o ConcatTerms(Tail(terms), d)
Indexed == ConcatTerms(SortedSeq(query), doc)

\* rs partitions [0, n): it starts at 0, ends at n, each range is non-empty
\* and starts where the previous one ends.
IsPartition(rs, n) ==
    /\ Len(rs) >= 1
    /\ rs[1].lower = 0
    /\ rs[Len(rs)].upper = n
    /\ \A i \in 1..Len(rs) : rs[i].lower < rs[i].upper
    /\ \A i \in 1..(Len(rs) - 1) : rs[i + 1].lower = rs[i].upper

\* The tokens of the stream that were tested for membership: all of them,
\* or, when the last one was rejected by the limit filter, all but that one.
Tested == SubSeq(tokens, 1, run.tested)

\* One HighlightRange per tested token whose ordinal is in the position set.
IsMatch(tk) == tk.position \in Range(run.positions)
SpanOf(tk) == HighlightRange(tk.offset_from, tk.offset_to)
Matches ==
    LET hits == SelectSeq(Tested, IsMatch)
    IN [i \in 1..Len(hits) |-> SpanOf(hits[i])]

\* Every write so far went into the capacity the output was created with.
WithinCapacity == Len(run.ranges) <= run.capacity

(***************************************************************************)
(* The properties.                                                         *)
(***************************************************************************)

\* C1: for every non-empty text, every decoded position set and every
\* forward-only token stream, the sequence TextRangesGenerator::generate
\* returns partitions [0, len(text)): it starts at 0, ends at len(text), has
\* no gap, no overlap and no zero-length range.
C1_PartitionsText ==
    (kind = "text" /\ Done /\ text # <<>>) => IsPartition(run.result, Len(text))

\* C2: when the positions decoded for the matching terms of one document
\* outnumber the slots of the scratch buffer, the call ends in an error: no
\* position is written outside the buffer, the recorded length never exceeds
\* the capacity, and no position set is returned.
C2_OverflowIsAnError ==
    (run.decoded /\ Len(Indexed) > BUFFER_LEN - 1) =>
        /\ run.status = "panicked"
        /\ ~run.overrun
        /\ buffer[0] <= BUFFER_LEN - 1

\* C3: with limit = L no returned HighlightRange has upper > L, the tokens
\* tested for membership are exactly those before the first token whose
\* offset_to exceeds L, and no token is taken from the stream after that
\* one; with no limit every token taken from the stream is tested.
C3_LimitTruncates ==
    (kind = "highlight" /\ Done) =>
        /\ \A i \in 1..Len(run.result) :
              retained([offset_to |-> run.result[i].upper], limit)
        /\ \A i \in 1..Len(tokens) : retained(tokens[i], limit) <=> i <= run.tested
        /\ Len(tokens) <= run.tested + 1
        /\ limit = <<>> => run.tested = Len(tokens)

\* C4: the sequence HighlightRangesGenerator::generate returns holds, in
\* emission order, exactly one range per tested token whose ordinal is in
\* the decoded position set, with that token's byte span; it is strictly
\* ascending by lower, non-overlapping, and each range has
\* lower < upper <= len(text), and upper <= limit when a limit is given.
C4_MatchesInOrder ==
    (kind = "highlight" /\ Done) =>
        /\ run.result = Matches
        /\ \A i \in 1..Len(run.result) :
              /\ run.result[i].lower < run.result[i].upper
              /\ run.result[i].upper <= Len(text)
              /\ retained([offset_to |-> run.result[i].upper], limit)
        /\ \A i \in 1..(Len(run.result) - 1) :
              /\ run.result[i].lower < run.result[i + 1].lower
              /\ run.result[i].upper <= run.result[i + 1].lower

\* C5: for a non-empty text, when no matching term has the document in its
\* postings (the decoded position set is empty), the call returns without an
\* error: TextRangesGenerator one non-match range [0, len(text)),
\* HighlightRangesGenerator the empty sequence; no tokenizer is obtained and
\* no token is consumed.
C5_NoMatchFallback ==
    (run.decoded /\ Indexed = <<>>) =>
        /\ Done
        /\ run.result = IF kind = "text" THEN <<TextRange(FALSE, 0, Len(text))>> ELSE <<>>
        /\ ~run.tokenizer
        /\ tokens = <<>>
        /\ run.tested = 0

\* C5's case: a call with a non-empty text and a non-empty query none of
\* whose terms has the document, on an instance used before.
C5_Witness ==
    /\ run.decoded
    /\ kind = "text"
    /\ text # <<>>
    /\ query # {}
    /\ Indexed = <<>>
    /\ calls = 2
    /\ Done

\* C6: with an empty text both generate functions return the empty sequence
\* without decoding: the scratch buffer (length slot and positions) is as it
\* was, no postings stream and no tokenizer is opened, whatever the query
\* and the document are.
C6_EmptyTextShortCircuit ==
    (run.status # "idle" /\ text = <<>>) =>
        /\ Done
        /\ run.result = <<>>
        /\ ~run.decoded
        /\ run.opened = 0
        /\ ~run.tokenizer
        /\ buffer = entryBuffer

\* C6's case: an empty text passed with a query that matches the document,
\* to an instance whose buffer holds an earlier call's positions.
C6_Witness ==
    /\ Done
    /\ text = <<>>
    /\ Indexed # <<>>
    /\ calls = 2
    /\ buffer[0] > 0

\* The scenario of C7: "the quick brown fox" tokenized on whitespace, the
\* decoded position set holding the ordinals of "quick" and "fox".
FoxCase ==
    /\ kind = "text"
    /\ Done
    /\ text = FoxText
    /\ tokenizer = "whitespace"
    /\ Range(run.positions) = {1, 3}

\* C7: in the scenario above TextRangesGenerator::generate returns exactly
\* match [4,9), non-match [9,16), match [16,19), with no leading filler.
C7_ThreeRanges ==
    FoxCase =>
        run.result = <<TextRange(TRUE, 4, 9), TextRange(FALSE, 9, 16),
                       TextRange(TRUE, 16, 19)>>

\* C7, amended: in the scenario above TextRangesGenerator::generate returns
\* exactly non-match [0,4), match [4,9), non-match [9,16), match [16,19):
\* the bytes before the first match are a leading filler range.
C7_FourRanges ==
    FoxCase =>
        run.result = <<TextRange(FALSE, 0, 4), TextRange(TRUE, 4, 9),
                       TextRange(FALSE, 9, 16), TextRange(TRUE, 16, 19)>>

\* C7's case: the scenario, with the whole stream consumed.
C7_Witness == FoxCase /\ Len(tokens) = 4 /\ query = {1, 2} /\ doc = 0

\* C8: the slice `positions` returns has the length of the summed
\* frequencies of the matching terms whose postings hold the document, and
\* holds those terms' positions, term after term in term order, each term's
\* positions stored right after those already written.
C8_ConcatenatedPositions ==
    (run.decoded /\ run.status \in {"loop", "done"}) =>
        /\ buffer[0] = Len(Indexed)
        /\ run.positions = Indexed

\* C9: reuse leaks nothing: a generate call on an instance that served
\* earlier calls returns what the same call returns on a freshly created
\* instance.
C9_ReuseEqualsFresh ==
    (Done /\ calls >= 2) => (fresh.status = "done" /\ fresh.result = run.result)

\* C10: at every step the number of ranges written is at most the capacity
\* the output was created with: 2 * position_count + 1 in
\* TextRangesGenerator::generate, position_count in
\* HighlightRangesGenerator::generate.
C10_WritesWithinCapacity ==
    Len(run.ranges) <= (IF kind = "text" THEN 2 * Len(run.positions) + 1
                        ELSE Len(run.positions))

====
